---- MODULE Spec2Model ----
(***************************************************************************)
(* A model of token_counter/counter.py: main() checks the base path,       *)
(* resolves a tiktoken encoder, walks the directory tree with os.walk,     *)
(* classifies every file (excluded extension / PDF / binary / text),       *)
(* counts tokens and prints a summary.                                     *)
(*                                                                         *)
(* Names (file names, directory names, extensions) are sequences of        *)
(* one-character strings, so splitext, lower and startswith are computed   *)
(* as the code computes them.  A text is a sequence of words; the          *)
(* tokenizer maps every word to a number of tokens that depends on the     *)
(* encoding.                                                               *)
(***************************************************************************)
EXTENDS Integers, Sequences, FiniteSets, TLC

\* ------------------------------------------------------------- bounds

\* Most files in the directory of a flat input tree.
MaxFiles == 2
\* Most subdirectories beneath the base path.
MaxDirs == 2

\* --------------------------------------------------- program constants

\* fs.read(8192) in is_binary_file.
SniffLen == 8192

EXCLUDED_EXTENSIONS ==
    {<<".", "p", "n", "g">>, <<".", "j", "p", "g">>, <<".", "j", "p", "e", "g">>,
     <<".", "g", "i", "f">>, <<".", "b", "m", "p">>, <<".", "i", "c", "o">>,
     <<".", "s", "v", "g">>, <<".", "w", "e", "b", "p">>,
     <<".", "m", "p", "3">>, <<".", "m", "p", "4">>, <<".", "w", "a", "v">>,
     <<".", "a", "v", "i">>, <<".", "m", "o", "v">>, <<".", "m", "k", "v">>,
     <<".", "f", "l", "a", "c">>,
     <<".", "z", "i", "p">>, <<".", "t", "a", "r">>, <<".", "g", "z">>,
     <<".", "r", "a", "r">>, <<".", "7", "z">>,
     <<".", "e", "x", "e">>, <<".", "d", "l", "l">>, <<".", "s", "o">>,
     <<".", "d", "y", "l", "i", "b">>,
     <<".", "p", "y", "c">>, <<".", "p", "y", "o">>, <<".", "c", "l", "a", "s", "s">>,
     <<".", "b", "i", "n">>, <<".", "d", "a", "t">>, <<".", "d", "b">>,
     <<".", "s", "q", "l", "i", "t", "e">>,
     <<".", "t", "t", "f">>, <<".", "o", "t", "f">>, <<".", "w", "o", "f", "f">>,
     <<".", "w", "o", "f", "f", "2">>}

\* The extension of the PDF branch.
PdfExt == <<".", "p", "d", "f">>

\* The directory names scan_directory prunes besides the hidden ones.
PrunedDirNames ==
    {<<"n", "o", "d", "e", "_", "m", "o", "d", "u", "l", "e", "s">>,
     <<"_", "_", "p", "y", "c", "a", "c", "h", "e", "_", "_">>,
     <<"v", "e", "n", "v">>,
     <<".", "g", "i", "t">>}

\* The default of --model and the encoding tiktoken maps it to; the
\* encoding main falls back to.
DefaultModel == "gpt-4o"
ModelEncoding == "o200k_base"
FallbackEncoding == "cl100k_base"

\* --------------------------------------------------------- str helpers

UpperChars ==
    <<"A", "B", "C", "D", "E", "F", "G", "H", "I", "J", "K", "L", "M",
      "N", "O", "P", "Q", "R", "S", "T", "U", "V", "W", "X", "Y", "Z">>
LowerChars ==
    <<"a", "b", "c", "d", "e", "f", "g", "h", "i", "j", "k", "l", "m",
      "n", "o", "p", "q", "r", "s", "t", "u", "v", "w", "x", "y", "z">>

\* str.lower() on one character.
LowerChar(c) ==
    IF \E i \in 1..Len(UpperChars) : UpperChars[i] = c
    THEN LowerChars[CHOOSE i \in 1..Len(UpperChars) : UpperChars[i] = c]
    ELSE c

\* ext.lower()
Lower(s) == [i \in 1..Len(s) |-> LowerChar(s[i])]

\* The position of the last "." of a name, 0 when there is none (rfind).
LastDot(name) ==
    IF \E i \in 1..Len(name) : name[i] = "."
    THEN CHOOSE i \in 1..Len(name) :
            name[i] = "." /\ \A j \in (i + 1)..Len(name) : name[j] # "."
    ELSE 0

\* os.path.splitext(filename)[1]: the suffix from the last dot, unless the
\* name has nothing but dots before it (a leading-dot name has no extension).
Splitext(name) ==
    LET d == LastDot(name)
    IN IF d > 0 /\ \E j \in 1..(d - 1) : name[j] # "."
       THEN SubSeq(name, d, Len(name))
       ELSE <<>>

\* d.startswith('.')
StartsWithDot(name) == Len(name) > 0 /\ name[1] = "."

\* ----------------------------------------------------- classification

\* The test of the extension without .lower().
IsExcluded_NoLower(name) == Splitext(name) \in EXCLUDED_EXTENSIONS

\* ext = splitext(filename)[1].lower(); ext in EXCLUDED_EXTENSIONS
IsExcluded(name) == Lower(Splitext(name)) \in EXCLUDED_EXTENSIONS

\* ext == '.pdf'
IsPdfName(name) == Lower(Splitext(name)) = PdfExt

\* The filter without its startswith('.') test.
KeepDir_SetOnly(name) == name \notin PrunedDirNames

\* The filter of dirs[:] = [...]: the subdirectories os.walk descends into.
KeepDir(name) == ~StartsWithDot(name) /\ name \notin PrunedDirNames

\* The sniff over the whole file instead of its first chunk.
IsBinaryFile_WholeFile(f, ioErr) ==
    IF ioErr THEN TRUE ELSE f.nulAt # 0

\* is_binary_file: TRUE when the chunk of the first SniffLen bytes holds a
\* NUL byte, and TRUE when opening or reading raises.  f.nulAt is the
\* 1-based offset of the file's first NUL byte, 0 when it has none.
IsBinaryFile(f, ioErr) ==
    IF ioErr THEN TRUE ELSE f.nulAt # 0 /\ f.nulAt <= SniffLen

\* ------------------------------------------------------------ tokenizer

\* Words a text is made of.  "<|endoftext|>" is a special token of both
\* encodings; "\n" is the separator extract_text_from_pdf joins pages with.
Newline == "\n"
SpecialTokens == {"<|endoftext|>"}

\* How many tokens encoder.encode makes of one word: it depends on the
\* vocabulary ("tokenizer" is one token in o200k_base, two in cl100k_base).
TokenLen(enc, w) ==
    IF w = "tokenizer" /\ enc = FallbackEncoding THEN 2 ELSE 1

\* encoder.encode(text) with its default disallowed_special = "all" raises
\* ValueError on a text that holds a special token.
EncodeRaises(enc, text) == \E i \in 1..Len(text) : text[i] \in SpecialTokens

RECURSIVE EncodeLen(_, _)
\* len(encoder.encode(text))
EncodeLen(enc, text) ==
    IF text = <<>> THEN 0
    ELSE TokenLen(enc, Head(text)) + EncodeLen(enc, Tail(text))

\* count_tokens: the empty text counts 0 without the encoder being called.
\* raised: encoder.encode raised, and count_tokens with it.
count_tokens(text, enc) ==
    IF text = <<>> THEN [raised |-> FALSE, n |-> 0]
    ELSE IF EncodeRaises(enc, text) THEN [raised |-> TRUE, n |-> 0]
    ELSE [raised |-> FALSE, n |-> EncodeLen(enc, text)]

\* ----------------------------------------------------------- extractors

RECURSIVE JoinLines(_)
\* '\n'.join(text_parts)
JoinLines(parts) ==
    IF parts = <<>> THEN <<>>
    ELSE IF Len(parts) = 1 THEN parts[1]
    ELSE parts[1] \o <<Newline>> \o JoinLines(Tail(parts))

\* The index of the first page whose extract_text raises, 0 when none does.
FirstBadPage(pages) ==
    IF \E i \in 1..Len(pages) : ~pages[i].ok
    THEN CHOOSE i \in 1..Len(pages) :
            ~pages[i].ok /\ \A j \in 1..(i - 1) : pages[j].ok
    ELSE 0

RECURSIVE TextParts(_, _)
\* text_parts after the loop over the first n pages: the non-empty texts.
TextParts(pages, n) ==
    IF n = 0 THEN <<>>
    ELSE LET before == TextParts(pages, n - 1)
         IN IF pages[n].text # <<>> THEN Append(before, pages[n].text)
            ELSE before

\* extract_text_from_pdf: text_parts is filled page by page inside the try;
\* an exception (open, PdfReader, a page) prints the warning; the function
\* returns the join of whatever text_parts holds then.
extract_text_from_pdf(f, ioErr) ==
    IF ioErr \/ ~f.isPdf
    THEN [text |-> <<>>, warned |-> TRUE]
    ELSE LET bad == FirstBadPage(f.pages)
             n == IF bad = 0 THEN Len(f.pages) ELSE bad - 1
         IN [text |-> JoinLines(TextParts(f.pages, n)), warned |-> bad # 0]

\* read_text_file: the whole file decoded as UTF-8; '' and a warning when
\* opening, reading or decoding raises.
read_text_file(f, ioErr) ==
    IF ioErr \/ ~f.utf8
    THEN [text |-> <<>>, warned |-> TRUE]
    ELSE [text |-> f.text, warned |-> FALSE]

\* ---------------------------------------------------------------- stats

\* stats as scan_directory creates it.
NewStats ==
    [tokens |-> <<>>, total_files |-> 0, pdf_files |-> 0, text_files |-> 0,
     skipped_files |-> 0]

\* The excluded and the binary branch.
SkipFile(st) == [st EXCEPT !.skipped_files = @ + 1]

\* The PDF branch.
RecordPdf(st, n) ==
    [st EXCEPT !.tokens = Append(@, n), !.pdf_files = @ + 1,
               !.total_files = @ + 1]

\* The text branch without its total_files line.
RecordText_NoTotal(st, n) ==
    [st EXCEPT !.tokens = Append(@, n), !.text_files = @ + 1]

\* The text branch.
RecordText(st, n) ==
    [st EXCEPT !.tokens = Append(@, n), !.text_files = @ + 1,
               !.total_files = @ + 1]

\* ---------------------------------------------------------------- numpy

\* A printed number: num/den, or nan.
Num(n) == [nan |-> FALSE, num |-> n, den |-> 1]
NaN == [nan |-> TRUE, num |-> 0, den |-> 0]

RECURSIVE SumSeq(_)
SumSeq(s) == IF s = <<>> THEN 0 ELSE Head(s) + SumSeq(Tail(s))

\* np.sum
NpSum(s) == Num(SumSeq(s))

\* np.mean: the mean of an empty list is nan (0/0, with a RuntimeWarning).
NpMean(s) ==
    IF s = <<>> THEN NaN ELSE [nan |-> FALSE, num |-> SumSeq(s), den |-> Len(s)]

\* np.median: the middle of the sorted list, the mean of the two middles of
\* an even one, nan of an empty one.
NpMedian(s) ==
    IF s = <<>> THEN NaN
    ELSE LET t == SortSeq(s, LAMBDA a, b : a < b)
             n == Len(t)
         IN IF n % 2 = 1 THEN Num(t[(n + 1) \div 2])
            ELSE [nan |-> FALSE, num |-> t[n \div 2] + t[n \div 2 + 1], den |-> 2]

\* --------------------------------------------------------------- inputs

\* A file: its name, the 1-based offset of its first NUL byte (0: none),
\* whether its bytes decode as UTF-8, its text, and for a PDF document
\* whether PdfReader can parse it and what each page's extract_text does.
File(name, nulAt, utf8, text, isPdf, pages) ==
    [name |-> name, nulAt |-> nulAt, utf8 |-> utf8, text |-> text,
     isPdf |-> isPdf, pages |-> pages]

Page(ok, text) == [ok |-> ok, text |-> text]

SomeText == <<"the", "tokenizer">>

\* a.png: an image (NUL bytes), excluded by its extension.
F_png == File(<<"a", ".", "p", "n", "g">>, 1, FALSE, <<>>, FALSE, <<>>)
\* B.JPG: an upper-case excluded extension.
F_JPG == File(<<"B", ".", "J", "P", "G">>, 1, FALSE, <<>>, FALSE, <<>>)
\* .png: a hidden text file; splitext gives it no extension.
F_dotpng == File(<<".", "p", "n", "g">>, 0, TRUE, <<"the">>, FALSE, <<>>)
\* a.tar.gz: excluded by its last extension.
F_targz == File(<<"a", ".", "t", "a", "r", ".", "g", "z">>, 1, FALSE, <<>>, FALSE, <<>>)
\* a.txt: plain text.
F_txt == File(<<"a", ".", "t", "x", "t">>, 0, TRUE, SomeText, FALSE, <<>>)
\* e.txt: an empty file.
F_empty == File(<<"e", ".", "t", "x", "t">>, 0, TRUE, <<>>, FALSE, <<>>)
\* s.md: a text that holds a special token.
F_special == File(<<"s", ".", "m", "d">>, 0, TRUE, <<"the", "<|endoftext|>">>, FALSE, <<>>)
\* bin: no extension, a NUL byte at the first offset.
F_bin == File(<<"b", "i", "n">>, 1, FALSE, <<>>, FALSE, <<>>)
\* edge: the first NUL byte is the last byte of the sniffed chunk.
F_edge == File(<<"e", "d", "g", "e">>, SniffLen, TRUE, SomeText, FALSE, <<>>)
\* late: the first NUL byte is the first byte after the sniffed chunk.
F_late == File(<<"l", "a", "t", "e">>, SniffLen + 1, TRUE, SomeText, FALSE, <<>>)
\* l.txt: bytes that are not UTF-8 (no NUL byte).
F_latin == File(<<"l", ".", "t", "x", "t">>, 0, FALSE, <<>>, FALSE, <<>>)
\* a.pdf: three pages, the second without text.
F_pdf ==
    File(<<"a", ".", "p", "d", "f">>, 1, FALSE, <<>>, TRUE,
         <<Page(TRUE, <<"the">>), Page(TRUE, <<>>), Page(TRUE, <<"tokenizer">>)>>)
\* C.PDF: not a PDF document at all (PdfReader raises).
F_PDF == File(<<"C", ".", "P", "D", "F">>, 0, TRUE, SomeText, FALSE, <<>>)
\* p.pdf: the first page extracts, the second raises.
F_partial ==
    File(<<"p", ".", "p", "d", "f">>, 1, FALSE, <<>>, TRUE,
         <<Page(TRUE, SomeText), Page(FALSE, <<>>)>>)

\* The files a flat input directory is made of.
Catalogue ==
    {F_png, F_JPG, F_dotpng, F_targz, F_txt, F_empty, F_special, F_bin,
     F_edge, F_late, F_latin, F_pdf, F_PDF, F_partial}

\* The listings of a directory of an input tree with subdirectories.
TreeListings == {<<>>, <<F_png, F_txt>>}

\* The names of the subdirectories of an input tree.
DirNames ==
    {<<".", "x">>, <<"v", "e", "n", "v">>, <<"s", "r", "c">>, <<"l", "i", "b">>}

\* The listings of at most n files, no name twice.
Listings(n) ==
    {s \in UNION {[1..k -> Catalogue] : k \in 0..n} :
        \A i, j \in 1..Len(s) : i # j => s[i].name # s[j].name}

\* What is at base_path: nothing, a file, or a directory with subdirectories
\* 1..n (parent[d] < d, 0 is base_path itself) and the files of each.
FileSystem(kind, n, parent, dname, files) ==
    [kind |-> kind, n |-> n, parent |-> parent, dname |-> dname, files |-> files]

NoTree(kind) == FileSystem(kind, 0, <<>>, <<>>, [d \in {0} |-> <<>>])

FlatTrees ==
    {FileSystem("dir", 0, <<>>, <<>>, [d \in {0} |-> l]) : l \in Listings(MaxFiles)}

DeepTrees ==
    UNION {
        {FileSystem("dir", n, parent, dname, files) :
            parent \in {p \in [1..n -> 0..(n - 1)] : \A d \in 1..n : p[d] < d},
            dname \in [1..n -> DirNames],
            files \in [0..n -> TreeListings]} : n \in 1..MaxDirs}

\* Sibling directories have different names.
WellFormed(t) ==
    \A c, d \in 1..t.n : (c # d /\ t.parent[c] = t.parent[d]) => t.dname[c] # t.dname[d]

Inputs ==
    {NoTree("missing"), NoTree("file")} \cup FlatTrees
        \cup {t \in DeepTrees : WellFormed(t)}

\* The subdirectories of d, in the order scandir lists them.
Children(t, d) ==
    SelectSeq([i \in 1..t.n |-> i], LAMBDA c : t.parent[c] = d)

\* os.path.join(root, filename)
Path(d, name) == [dir |-> d, name |-> name]
NoPath == [dir |-> -1, name |-> <<>>]

\* One printed line.
Line(kind, path, val) == [kind |-> kind, path |-> path, val |-> val]

\* ---------------------------------------------------------------- state

VARIABLES
    fs,         \* what is at args.base_path (never changes)
    model,      \* args.model
    pc,         \* where main is: "main", "resolve", "scan", "report", "done", "exited"
    exc,        \* what ended the process: "none", "SystemExit", "KeyboardInterrupt", "ValueError"
    sigint,     \* a KeyboardInterrupt was delivered
    encoder,    \* the encoding of the resolved encoder, "none" before
    stack,      \* os.walk: the directories still to list
    cwd,        \* os.walk: root of the triple being processed
    files,      \* the files of that triple the loop has not reached yet
    stats,      \* scan_directory's stats
    out,        \* the lines printed
    opened,     \* which function opened which path
    visited     \* the iterations of the loop over files that completed

vars ==
    <<fs, model, pc, exc, sigint, encoder, stack, cwd, files, stats, out,
      opened, visited>>

Models == {DefaultModel, "no-such-model"}

Init ==
    /\ fs \in Inputs
    /\ model \in Models
    /\ pc = "main"
    /\ exc = "none"
    /\ sigint = FALSE
    /\ encoder = "none"
    /\ stack = <<>>
    /\ cwd = 0
    /\ files = <<>>
    /\ stats = NewStats
    /\ out = <<>>
    /\ opened = {}
    /\ visited = <<>>

\* The process ends with exception e (sys.exit raises SystemExit).
Die(e) ==
    /\ pc' = "exited"
    /\ exc' = e

\* ----------------------------------------------------------------- main

\* main without the sys.exit(0) after the error line.
CheckBasePath_NoExit ==
    /\ pc = "main"
    /\ out' = IF fs.kind = "missing"
              THEN Append(out, Line("error", NoPath, Num(0)))
              ELSE out
    /\ pc' = "resolve"
    /\ UNCHANGED <<fs, model, exc, sigint, encoder, stack, cwd, files, stats,
                   opened, visited>>

\* main: os.path.exists(args.base_path); the error line and sys.exit(0).
CheckBasePath ==
    /\ pc = "main"
    /\ IF fs.kind = "missing"
       THEN /\ out' = Append(out, Line("error", NoPath, Num(0)))
            /\ Die("SystemExit")
       ELSE /\ pc' = "resolve"
            /\ UNCHANGED <<out, exc>>
    /\ UNCHANGED <<fs, model, sigint, encoder, stack, cwd, files, stats,
                   opened, visited>>

\* tiktoken.encoding_for_model(args.model): KeyError for a model name it
\* does not know.
EncodingForModel(m) ==
    IF m = DefaultModel THEN [raised |-> FALSE, enc |-> ModelEncoding]
    ELSE [raised |-> TRUE, enc |-> "none"]

\* main falling back to the encoding of the default model.
ResolveEncoder_WrongFallback ==
    /\ pc = "resolve"
    /\ encoder' = ModelEncoding
    /\ stats' = NewStats
    /\ stack' = IF fs.kind = "dir" THEN <<0>> ELSE <<>>
    /\ files' = <<>>
    /\ pc' = "scan"
    /\ UNCHANGED <<fs, model, exc, sigint, cwd, out, opened, visited>>

\* main: the encoder, cl100k_base on KeyError, without a line printed; then
\* the call of scan_directory, which creates stats and starts os.walk
\* (os.walk yields nothing for a base path that is no directory).
ResolveEncoder ==
    /\ pc = "resolve"
    /\ LET r == EncodingForModel(model)
       IN encoder' = IF r.raised THEN FallbackEncoding ELSE r.enc
    /\ stats' = NewStats
    /\ stack' = IF fs.kind = "dir" THEN <<0>> ELSE <<>>
    /\ files' = <<>>
    /\ pc' = "scan"
    /\ UNCHANGED <<fs, model, exc, sigint, cwd, out, opened, visited>>

\* ------------------------------------------------------- scan_directory

\* os.walk yields the next (root, dirs, files); the loop body prunes dirs in
\* place, and os.walk descends into what is left, depth first.
WalkNext ==
    /\ pc = "scan"
    /\ files = <<>>
    /\ stack # <<>>
    /\ LET top == Head(stack)
           dirs == SelectSeq(Children(fs, top), LAMBDA d : KeepDir(fs.dname[d]))
       IN /\ cwd' = top
          /\ files' = fs.files[top]
          /\ stack' = dirs \o Tail(stack)
    /\ UNCHANGED <<fs, model, pc, exc, sigint, encoder, stats, out, opened,
                   visited>>

\* os.walk is exhausted: scan_directory returns stats.
ScanReturn ==
    /\ pc = "scan"
    /\ files = <<>>
    /\ stack = <<>>
    /\ pc' = "report"
    /\ UNCHANGED <<fs, model, exc, sigint, encoder, stack, cwd, files, stats,
                   out, opened, visited>>

\* The loop moves on to the next file.  visited keeps the branch the
\* iteration took, whether the sniff raised (sniffErr) and whether the
\* extraction or the read did (ioErr).
NextFile(branch, sniffErr, ioErr) ==
    /\ files' = Tail(files)
    /\ visited' = Append(visited, [path |-> Path(cwd, Head(files).name),
                                   branch |-> branch, sniffErr |-> sniffErr,
                                   ioErr |-> ioErr])

\* print('[warning] ...'); print(e)
WarningLines(r, p) ==
    IF r.warned
    THEN <<Line("warning", p, Num(0)), Line("exception", p, Num(0))>>
    ELSE <<>>

Opened(p, by) == [path |-> p, by |-> by]

\* A file with an excluded extension.
ProcessExcluded ==
    /\ pc = "scan"
    /\ files # <<>>
    /\ IsExcluded(Head(files).name)
    /\ stats' = SkipFile(stats)
    /\ NextFile("excluded", FALSE, FALSE)
    /\ UNCHANGED <<fs, model, pc, exc, sigint, encoder, stack, cwd, out, opened>>

\* A .pdf file: extract, count, record, print the info line.  An exception
\* of count_tokens is caught nowhere.
ProcessPdf ==
    /\ pc = "scan"
    /\ files # <<>>
    /\ ~IsExcluded(Head(files).name)
    /\ IsPdfName(Head(files).name)
    /\ \E ioErr \in BOOLEAN :
        LET f == Head(files)
            p == Path(cwd, f.name)
            r == extract_text_from_pdf(f, ioErr)
            c == count_tokens(r.text, encoder)
        IN /\ opened' = opened \cup {Opened(p, "extract_text_from_pdf")}
           /\ IF c.raised
              THEN /\ out' = out \o WarningLines(r, p)
                   /\ Die("ValueError")
                   /\ UNCHANGED <<stats, files, visited>>
              ELSE /\ out' = out \o WarningLines(r, p) \o <<Line("info", p, Num(c.n))>>
                   /\ stats' = RecordPdf(stats, c.n)
                   /\ NextFile("pdf", FALSE, ioErr)
                   /\ UNCHANGED <<pc, exc>>
    /\ UNCHANGED <<fs, model, sigint, encoder, stack, cwd>>

\* A file the sniff calls binary.
ProcessBinary ==
    /\ pc = "scan"
    /\ files # <<>>
    /\ ~IsExcluded(Head(files).name)
    /\ ~IsPdfName(Head(files).name)
    /\ \E sniffErr \in BOOLEAN :
        /\ IsBinaryFile(Head(files), sniffErr)
        /\ opened' = opened \cup {Opened(Path(cwd, Head(files).name), "is_binary_file")}
        /\ stats' = SkipFile(stats)
        /\ NextFile("binary", sniffErr, FALSE)
    /\ UNCHANGED <<fs, model, pc, exc, sigint, encoder, stack, cwd, out>>

\* A file the sniff does not call binary: read, count, record, print the
\* info line.
ProcessText ==
    /\ pc = "scan"
    /\ files # <<>>
    /\ ~IsExcluded(Head(files).name)
    /\ ~IsPdfName(Head(files).name)
    /\ \E sniffErr, ioErr \in BOOLEAN :
        LET f == Head(files)
            p == Path(cwd, f.name)
            r == read_text_file(f, ioErr)
            c == count_tokens(r.text, encoder)
        IN /\ ~IsBinaryFile(f, sniffErr)
           /\ opened' = opened \cup {Opened(p, "is_binary_file"), Opened(p, "read_text_file")}
           /\ IF c.raised
              THEN /\ out' = out \o WarningLines(r, p)
                   /\ Die("ValueError")
                   /\ UNCHANGED <<stats, files, visited>>
              ELSE /\ out' = out \o WarningLines(r, p) \o <<Line("info", p, Num(c.n))>>
                   /\ stats' = RecordText(stats, c.n)
                   /\ NextFile("text", sniffErr, ioErr)
                   /\ UNCHANGED <<pc, exc>>
    /\ UNCHANGED <<fs, model, sigint, encoder, stack, cwd>>

\* --------------------------------------------------------------- report

\* The separator and the seven lines of the summary.
SummaryLines(st) ==
    <<Line("separator", NoPath, Num(0)),
      Line("total_files", NoPath, Num(st.total_files)),
      Line("pdf_files", NoPath, Num(st.pdf_files)),
      Line("text_files", NoPath, Num(st.text_files)),
      Line("skipped_files", NoPath, Num(st.skipped_files)),
      Line("total_tokens", NoPath, NpSum(st.tokens)),
      Line("mean", NoPath, NpMean(st.tokens)),
      Line("median", NoPath, NpMedian(st.tokens))>>

\* main after scan_directory returned.
Report ==
    /\ pc = "report"
    /\ out' = out \o SummaryLines(stats)
    /\ pc' = "done"
    /\ UNCHANGED <<fs, model, exc, sigint, encoder, stack, cwd, files, stats,
                   opened, visited>>

\* ------------------------------------------------------------ interrupt

\* Where a KeyboardInterrupt can arrive: in the tokenizer resolution, in the
\* enumeration of os.walk, and for the file the loop is at in the sniff,
\* the PDF extraction, the text read and the tokenization.
InterruptPoints ==
    IF pc = "resolve" THEN {"resolve"}
    ELSE IF pc # "scan" THEN {}
    ELSE IF files = <<>> THEN {"walk"}
    ELSE IF IsExcluded(Head(files).name) THEN {}
    ELSE IF IsPdfName(Head(files).name) THEN {"pdf", "encode"}
    ELSE IF IsBinaryFile(Head(files), FALSE) THEN {"sniff"}
    ELSE {"sniff", "read", "encode"}

\* The points inside a try with except KeyboardInterrupt: sys.exit(0).
CaughtPoints == {"resolve", "sniff", "pdf", "read"}

\* The opens of the current file that came before the interrupt.
OpenedAt(pt) ==
    IF pt \in {"resolve", "walk"} THEN {}
    ELSE LET p == Path(cwd, Head(files).name)
         IN IF pt = "sniff" THEN {Opened(p, "is_binary_file")}
            ELSE IF pt = "pdf" \/ (pt = "encode" /\ IsPdfName(Head(files).name))
                 THEN {Opened(p, "extract_text_from_pdf")}
            ELSE {Opened(p, "is_binary_file"), Opened(p, "read_text_file")}

\* The lines the current file's extraction printed before an interrupt in
\* count_tokens.
PrintedAt(pt, ioErr) ==
    IF pt # "encode" THEN <<>>
    ELSE LET f == Head(files)
             p == Path(cwd, f.name)
         IN IF IsPdfName(f.name)
            THEN WarningLines(extract_text_from_pdf(f, ioErr), p)
            ELSE WarningLines(read_text_file(f, ioErr), p)

\* is_binary_file catching the KeyboardInterrupt like any exception: the
\* file is skipped as binary and the scan goes on.
Interrupt_Swallowed ==
    \E pt \in InterruptPoints : \E ioErr \in BOOLEAN :
        /\ pt # "encode" => ~ioErr
        /\ sigint' = TRUE
        /\ opened' = opened \cup OpenedAt(pt)
        /\ out' = out \o PrintedAt(pt, ioErr)
        /\ IF pt = "sniff"
           THEN /\ stats' = SkipFile(stats)
                /\ NextFile("binary", TRUE, FALSE)
                /\ UNCHANGED <<pc, exc>>
           ELSE /\ Die(IF pt \in CaughtPoints THEN "SystemExit" ELSE "KeyboardInterrupt")
                /\ UNCHANGED <<files, stats, visited>>
        /\ UNCHANGED <<fs, model, encoder, stack, cwd>>

\* A KeyboardInterrupt: sys.exit(0) where it is caught, and the uncaught
\* exception ends the process where it is not.  stats is updated only after
\* count_tokens returned, so the file the loop is at is counted nowhere.
Interrupt ==
    /\ \E pt \in InterruptPoints : \E ioErr \in BOOLEAN :
        /\ pt # "encode" => ~ioErr
        /\ sigint' = TRUE
        /\ Die(IF pt \in CaughtPoints THEN "SystemExit" ELSE "KeyboardInterrupt")
        /\ opened' = opened \cup OpenedAt(pt)
        /\ out' = out \o PrintedAt(pt, ioErr)
    /\ UNCHANGED <<fs, model, encoder, stack, cwd, files, stats, visited>>

\* ------------------------------------------------------- specification

Next ==
    \/ CheckBasePath
    \/ ResolveEncoder
    \/ WalkNext
    \/ ScanReturn
    \/ ProcessExcluded
    \/ ProcessPdf
    \/ ProcessBinary
    \/ ProcessText
    \/ Report
    \/ Interrupt

Spec == Init /\ [][Next]_vars

\* --------------------------------------------------------------- claims

\* The summary lines main printed (none before Report).
PrintedSummary == SelectSeq(out, LAMBDA l : l.path = NoPath /\ l.kind # "error")

\* C1: in every state of a scan and in the stats it returns, total_files is
\* pdf_files + text_files and tokens holds one count per counted file.
C1_CountersAgree ==
    /\ stats.total_files = stats.pdf_files + stats.text_files
    /\ Len(stats.tokens) = stats.total_files

\* A finished scan that counted a PDF file and a text file.
C1_Witness ==
    /\ pc = "done"
    /\ stats.pdf_files = 1
    /\ stats.text_files = 1

\* C2: with an existing base path and no interrupt, nothing that fails while
\* one file is processed ends the run: the process never ends before the
\* summary.
C2_NoFileFailureEndsRun ==
    (fs.kind # "missing" /\ ~sigint) => pc # "exited"

\* The loop completes the iteration of the file it is at.
StepsOverFile == pc = "scan" /\ files # <<>> /\ Len(visited') = Len(visited) + 1

\* What the completed iteration recorded.
LastVisit == visited'[Len(visited')]

\* C3: a .pdf file whose opening, parsing or page extraction fails at any
\* point (also after earlier pages were extracted) prints a warning and
\* counts 0 tokens, with pdf_files and total_files one more and
\* skipped_files the same.
C3_FailedPdfCountsZero ==
    [][(/\ StepsOverFile
        /\ LastVisit.branch = "pdf"
        /\ \/ LastVisit.ioErr
           \/ ~Head(files).isPdf
           \/ \E i \in 1..Len(Head(files).pages) : ~Head(files).pages[i].ok)
       => /\ stats' = [stats EXCEPT !.tokens = Append(@, 0),
                                    !.pdf_files = @ + 1,
                                    !.total_files = @ + 1]
          /\ \E i \in (Len(out) + 1)..Len(out') : out'[i].kind = "warning"]_vars

\* C4: a scan that processed no file ends with a summary whose counters and
\* total are zero and whose mean and median are defined values, not what
\* the computation over the empty tokens list gives.
C4_EmptyScanDefinedAverages ==
    (pc = "done" /\ stats.total_files = 0)
        => /\ Len(PrintedSummary) = 8
           /\ \A i \in 1..Len(PrintedSummary) :
                /\ ~PrintedSummary[i].val.nan
                /\ PrintedSummary[i].kind \in
                        {"total_files", "pdf_files", "text_files", "total_tokens"}
                    => PrintedSummary[i].val.num = 0

\* The name's lower-cased extension is in the exclusion set.
HasExcludedExtension(name) == Lower(Splitext(name)) \in EXCLUDED_EXTENSIONS

\* C5: a file with an excluded extension is never opened (no sniff, no PDF
\* extraction, no text read); its iteration adds one to skipped_files and
\* changes nothing else of stats, and prints nothing.
C5_ExcludedOnlySkipped ==
    /\ [](\A o \in opened : ~HasExcludedExtension(o.path.name))
    /\ [][(pc = "scan" /\ files # <<>> /\ HasExcludedExtension(Head(files).name))
            => /\ stats' = [stats EXCEPT !.skipped_files = @ + 1]
               /\ opened' = opened
               /\ out' = out
               /\ files' = Tail(files)]_vars

\* An excluded file with an upper-case extension was skipped.
C5_Witness ==
    \E i \in 1..Len(visited) :
        /\ visited[i].branch = "excluded"
        /\ visited[i].path.name = F_JPG.name
        /\ stats.skipped_files >= 1

\* The first SniffLen bytes of f hold a NUL byte.
NulInChunk(f) == f.nulAt >= 1 /\ f.nulAt <= 8192

\* C6: a file that is neither excluded nor a .pdf and has a NUL byte in its
\* first 8192 bytes, or whose sniff cannot open or read it, is binary: one
\* more skipped file, no text read, no tokens, nothing else of stats
\* changed; with its first NUL byte beyond the first 8192 bytes (or none)
\* it is a text file.
C6_SniffClassifies ==
    [][(/\ StepsOverFile
        /\ ~HasExcludedExtension(Head(files).name)
        /\ Lower(Splitext(Head(files).name)) # PdfExt)
       => IF NulInChunk(Head(files)) \/ LastVisit.sniffErr
          THEN /\ LastVisit.branch = "binary"
               /\ stats' = [stats EXCEPT !.skipped_files = @ + 1]
               /\ Opened(LastVisit.path, "read_text_file") \notin opened'
               /\ out' = out
          ELSE /\ LastVisit.branch = "text"
               /\ stats'.text_files = stats.text_files + 1
               /\ stats'.skipped_files = stats.skipped_files]_vars

\* A file with a NUL byte at offset 8192 was skipped as binary and one with
\* its first NUL byte at offset 8193 was counted as text.
C6_Witness ==
    \E i, j \in 1..Len(visited) :
        /\ visited[i].path.name = F_edge.name /\ visited[i].branch = "binary"
        /\ visited[j].path.name = F_late.name /\ visited[j].branch = "text"

\* A directory name the scan prunes.
NamePruned(n) ==
    \/ n[1] = "."
    \/ n \in {<<"n", "o", "d", "e", "_", "m", "o", "d", "u", "l", "e", "s">>,
              <<"_", "_", "p", "y", "c", "a", "c", "h", "e", "_", "_">>,
              <<"v", "e", "n", "v">>, <<".", "g", "i", "t">>}

RECURSIVE InPrunedDir(_)
\* Directory d is a pruned subdirectory or lies beneath one.
InPrunedDir(d) ==
    IF d = 0 THEN FALSE
    ELSE NamePruned(fs.dname[d]) \/ InPrunedDir(fs.parent[d])

\* The files beneath the base path that are in no pruned directory.
ExpectedPaths ==
    IF fs.kind # "dir" THEN {}
    ELSE UNION {{Path(d, fs.files[d][i].name) : i \in 1..Len(fs.files[d])} :
                    d \in {e \in 0..fs.n : ~InPrunedDir(e)}}

\* C7: a completed scan visited exactly the files beneath the root that are
\* in no pruned directory, each once; every visit added one to exactly one
\* of skipped_files, pdf_files and text_files, so total_files +
\* skipped_files is the number of those files.
C7_VisitsEachFileOnce ==
    /\ [](pc \in {"report", "done"}
            => /\ {visited[i].path : i \in 1..Len(visited)} = ExpectedPaths
               /\ Len(visited) = Cardinality(ExpectedPaths)
               /\ stats.total_files + stats.skipped_files = Cardinality(ExpectedPaths))
    /\ [][StepsOverFile
            => /\ stats'.skipped_files + stats'.pdf_files + stats'.text_files
                    = stats.skipped_files + stats.pdf_files + stats.text_files + 1
               /\ stats'.skipped_files >= stats.skipped_files
               /\ stats'.pdf_files >= stats.pdf_files
               /\ stats'.text_files >= stats.text_files]_vars

\* A completed scan of a tree with files at the root, a pruned directory
\* with files, and a directory with files that is not itself pruned beneath
\* the pruned one.
C7_Witness ==
    /\ pc = "done"
    /\ fs.n = 2
    /\ fs.parent[2] = 1
    /\ NamePruned(fs.dname[1])
    /\ ~NamePruned(fs.dname[2])
    /\ fs.files[0] # <<>> /\ fs.files[1] # <<>> /\ fs.files[2] # <<>>
    /\ Len(visited) = Len(fs.files[0])

\* C8: a KeyboardInterrupt in the tokenizer resolution, the enumeration, the
\* sniff, the PDF extraction, the text read or the tokenization ends the
\* process at once: the file it hit is counted nowhere, nothing runs after
\* it, and no summary is printed.
C8_InterruptEndsRun ==
    /\ [](sigint => (pc = "exited" /\ PrintedSummary = <<>>))
    /\ [][(sigint' /\ ~sigint)
            => (stats' = stats /\ visited' = visited /\ files' = files)]_vars
    /\ [][~sigint]_vars

\* The interrupt arrived in the tokenization of a file, after another file
\* had been processed.
C8_Witness ==
    /\ sigint
    /\ exc = "KeyboardInterrupt"
    /\ Len(visited) = 1
    /\ files # <<>>
    /\ Opened(Path(cwd, Head(files).name), "read_text_file") \in opened

\* C9: with a base path that does not exist, main prints the error line and
\* ends: no tokenizer is resolved, no file opened, no per-file line and no
\* summary printed.
C9_MissingBasePathEndsRun ==
    (fs.kind = "missing" /\ pc # "main")
        => /\ pc = "exited"
           /\ exc = "SystemExit"
           /\ out = <<Line("error", NoPath, Num(0))>>
           /\ encoder = "none"
           /\ opened = {}
           /\ visited = <<>>

\* The run ended on the missing base path.
C9_Witness == fs.kind = "missing" /\ pc = "exited" /\ Len(out) = 1

\* The file at a path of the input tree.
FileAt(p) ==
    LET l == fs.files[p.dir]
    IN l[CHOOSE i \in 1..Len(l) : l[i].name = p.name]

\* C10: a model name tiktoken does not know does not end the run: main takes
\* cl100k_base without printing anything, the scan counts with that
\* encoding, and a run that reaches its end prints the complete summary.
C10_UnknownModelFallsBack ==
    /\ [][(pc = "resolve" /\ model # "gpt-4o" /\ ~sigint')
            => (pc' = "scan" /\ encoder' = "cl100k_base" /\ out' = out
                /\ exc' = "none")]_vars
    /\ []((model # "gpt-4o" /\ pc \in {"scan", "report", "done"})
            => encoder = "cl100k_base")
    /\ []((model # "gpt-4o" /\ pc = "done")
            => /\ PrintedSummary = SummaryLines(stats)
               /\ \A i \in 1..Len(visited) :
                    (visited[i].branch = "text" /\ ~visited[i].ioErr
                        /\ FileAt(visited[i].path).utf8)
                    => \E k \in 1..Len(out) :
                        out[k] = Line("info", visited[i].path,
                                      Num(EncodeLen("cl100k_base",
                                                    FileAt(visited[i].path).text))))

\* A run with an unknown model printed its summary after counting a text
\* whose count differs between the two encodings.
C10_Witness ==
    /\ pc = "done"
    /\ model = "no-such-model"
    /\ \E i \in 1..Len(visited) :
        /\ visited[i].path.name = F_txt.name
        /\ visited[i].branch = "text"
        /\ ~visited[i].ioErr
    /\ \E k \in 1..Len(stats.tokens) : stats.tokens[k] = 3

====
